---- MODULE Spec2Model ----
(***************************************************************************)
(* Token lifecycle of the JWT playground server (src/jwt/go/main.go):      *)
(* the SQLite token table behind a one-connection pool, the HTTP handlers  *)
(* Ping, Tokens and SignUp behind panicMiddleware and logMiddleware, the   *)
(* startup and shutdown of func main, and the integer and text conversions *)
(* the handlers and the store apply to timestamps.                         *)
(*                                                                         *)
(* Scale.  TLC integers are 32 bits wide, so Go's int64 is modelled as a   *)
(* two's-complement integer of IntBits bits and time.Second as Second      *)
(* clock ticks instead of 10^9 nanoseconds.  The wrap-around of            *)
(* time.Duration(expSec) * time.Second and the range error of              *)
(* strconv.ParseInt happen at the scaled limits exactly as they do at      *)
(* 2^63.  The clock starts on the last tick before the count of epoch      *)
(* seconds gains a decimal digit (9 -> 10 here; 999999999 -> 1000000000    *)
(* on a real clock, e.g. a host that boots without RTC at the epoch and    *)
(* is later synchronised).                                                 *)
(*                                                                         *)
(* Specifications.  Spec: the started server with two concurrent           *)
(* connections.  SpecOne: one connection, every client input.  SpecStore:  *)
(* one connection on a database file that already holds rows.  SpecMain:   *)
(* func main from its entry to its exit, with one connection.              *)
(***************************************************************************)
EXTENDS Integers, Sequences, FiniteSets, TLC

(* ---------------------------- bounds ---------------------------------- *)
MaxTicks == 1     \* clock ticks that elapse during a run
IntBits  == 19    \* width of the modelled int64
Second   == 2     \* clock ticks per second (time.Second)

(* ----------------------- program constants ---------------------------- *)
\* the connections served concurrently, one goroutine each
Req == {1, 2}
\* the pool without its cap: a connection for every goroutine that asks
PoolOfAll == Cardinality(Req)
MaxOpenConns == 1                       \* db.SetMaxOpenConns(1)
Hour == 3600 * Second                   \* time.Hour
DefaultExpDuration == 24 * Hour         \* expDuration := 24 * time.Hour
StatusOK == 200
StatusBadRequest == 400
StatusNotFound == 404
StatusMethodNotAllowed == 405
StatusInternalServerError == 500
StatusBadGateway == 502

(* --------------------------- int64 ------------------------------------ *)
IntMod == 2 ^ IntBits
MaxInt64 == (IntMod \div 2) - 1
MinInt64 == -(IntMod \div 2)
\* two's-complement wrap-around of Go's int64 arithmetic
Wrap64(x) == ((x - MinInt64) % IntMod) + MinInt64

(* --------------------------- text ------------------------------------- *)
Digits == <<"0", "1", "2", "3", "4", "5", "6", "7", "8", "9">>
DigitSet == {Digits[i] : i \in 1..10}
DigitVal(c) == (CHOOSE i \in 1..10 : Digits[i] = c) - 1
\* byte values, as compared by SQLite's BINARY collation
CharCode(c) == CASE c = "+" -> 43
                 [] c = "-" -> 45
                 [] c \in DigitSet -> 48 + DigitVal(c)
                 [] OTHER -> 97

RECURSIVE FormatNat(_)
FormatNat(n) == IF n < 10 THEN <<Digits[n + 1]>>
                ELSE FormatNat(n \div 10) \o <<Digits[(n % 10) + 1]>>
\* decimal text of an integer (the TEXT affinity conversion of SQLite)
FormatInt(n) == IF n < 0 THEN <<"-">> \o FormatNat(-n) ELSE FormatNat(n)

RECURSIVE DigitsValue(_)
DigitsValue(s) == IF s = <<>> THEN 0
                  ELSE 10 * DigitsValue(SubSeq(s, 1, Len(s) - 1)) + DigitVal(s[Len(s)])

\* strconv.ParseInt(s, 10, 64): optional sign, then digits only; a syntax
\* error or a value outside the int64 range is an error
ParseInt(s) ==
  LET signed == s # <<>> /\ s[1] \in {"+", "-"}
      body   == IF signed THEN Tail(s) ELSE s
      syntax == body # <<>> /\ \A i \in 1..Len(body) : body[i] \in DigitSet
      mag    == IF syntax THEN DigitsValue(body) ELSE 0
      val    == IF signed /\ s[1] = "-" THEN -mag ELSE mag
  IN  IF syntax /\ val >= MinInt64 /\ val <= MaxInt64
      THEN [ok |-> TRUE, val |-> val]
      ELSE [ok |-> FALSE, val |-> 0]

\* byte-wise comparison of two texts (memcmp, shorter prefix first)
RECURSIVE TextLess(_, _)
TextLess(a, b) ==
  IF b = <<>> THEN FALSE
  ELSE IF a = <<>> THEN TRUE
  ELSE IF CharCode(a[1]) # CharCode(b[1]) THEN CharCode(a[1]) < CharCode(b[1])
  ELSE TextLess(Tail(a), Tail(b))

(* --------------------------- time ------------------------------------- *)
\* time.Time is a tick count since the epoch; t.Unix() rounds down
Unix(t) == t \div Second
\* time.Unix(sec, 0)
TimeUnix(sec) == sec * Second
\* t.Add(d): time.Time is wider than int64 nanoseconds, no wrap-around
TimeAdd(t, d) == t + d
\* time.Duration(expSec) * time.Second, an int64 multiplication
SecondsToDuration(expSec) == Wrap64(expSec * Second)

ClockStart == 10 * Second - 1

(* ----------------------- request inputs ------------------------------- *)
\* the values uuid.New() can draw; 0 is the Id of the zero Token
UUIDs == {1, 2}
Methods == {"GET", "POST", "DELETE"}
Paths == {"/ping", "/tokens", "/signup", "/tokens/auth"}
\* r.RemoteAddr, as the pieces net.SplitHostPort looks for
RemoteAddrs == {<<"10.0.0.1", ":", "5000">>, <<"@">>}
\* the X-Forwarded-For header; <<>> is the empty string
ForwardedFors == {<<>>, <<"1.2.3.4">>}
UserAgents == {<<"curl">>}
\* values of the form field expires_sec; <<>> is the field left out
OverflowSec == (MaxInt64 \div Second) + 1
ExpiresValues == {<<>>, <<"a", "b", "c">>, FormatInt(0), FormatInt(1), FormatInt(-1),
                  FormatInt(OverflowSec), FormatInt(MaxInt64 + 1)}
\* the clients of the concurrent runs: expires_sec left out or malformed,
\* no X-Forwarded-For
Basic == [expires |-> {<<>>, <<"a", "b", "c">>, FormatInt(MaxInt64 + 1)},
          xffs |-> {<<>>}]
\* every client
Full == [expires |-> ExpiresValues, xffs |-> ForwardedFors]
JWTSecret == "secret"

(* --------------------- http.ResponseWriter ---------------------------- *)
NoResponse == [status |-> 0, body |-> <<>>]
\* the first WriteHeader wins; a later one is superfluous and ignored
WriteHeader(w, code) == IF w.status = 0 THEN [w EXCEPT !.status = code] ELSE w
\* Write sends the header with 200 when none was sent yet
Write(w, chunk) == [WriteHeader(w, StatusOK) EXCEPT !.body = Append(@, chunk)]
Text(msg) == [kind |-> "text", text |-> msg]
\* http.Error(w, msg, code)
HttpError(w, msg, code) == Write(WriteHeader(w, code), Text(msg))

\* net.SplitHostPort(addr)
SplitHostPort(addr) ==
  IF Len(addr) = 3 /\ addr[2] = ":"
  THEN [ok |-> TRUE, host |-> addr[1], port |-> addr[3]]
  ELSE [ok |-> FALSE, host |-> "", port |-> ""]

\* the part of logMiddleware that runs after next.ServeHTTP returned
LogMiddleware(w, remote) ==
  IF SplitHostPort(remote).ok THEN w
  ELSE HttpError(w, "Unable to parse client IP", StatusBadRequest)

\* http.ServeMux with the patterns registered in main: exact paths only
Route(path) == CASE path = "/ping" -> "Ping"
                 [] path = "/tokens" -> "Tokens"
                 [] path = "/signup" -> "SignUp"
                 [] OTHER -> "NotFound"

(* ------------------------- Token, JWT --------------------------------- *)
ZeroToken == [Id |-> 0, IsRevoked |-> FALSE, IssuedAt |-> 0, ExpiresAt |-> 0,
              UpdatedAt |-> 0, Token |-> <<>>, ClientIP |-> <<>>, UserAgent |-> <<>>]
OmitEmpty == {"Token", "ClientIP", "UserAgent"}
\* json.Marshal of a Token: the omitempty fields are left out when empty
TokenJSON(t) ==
  [k \in {f \in DOMAIN t : ~(f \in OmitEmpty /\ t[f] = <<>>)} |-> t[k]]

\* jwt.NewWithClaims(HS256, claims).SignedString(secret): header, claims and
\* the keyed signature over them
SignedString(jti, iat, exp, nbf, secret) ==
  <<"HS256", [jti |-> jti, iat |-> iat, exp |-> exp, nbf |-> nbf], secret>>

\* the expires_sec handling of SignUp: the validity, or a refusal
ExpDuration(expSecStr) ==
  IF expSecStr = <<>> THEN [ok |-> TRUE, d |-> DefaultExpDuration]
  ELSE LET p == ParseInt(expSecStr)
       IN  IF p.ok THEN [ok |-> TRUE, d |-> SecondsToDuration(p.val)]
           ELSE [ok |-> FALSE, d |-> 0]

\* the Token SignUp builds
NewTokenTouched(now, d, tokenId, tokenString, clientIP, userAgent) ==
  [Id |-> tokenId, IsRevoked |-> FALSE, IssuedAt |-> now,
   ExpiresAt |-> TimeAdd(now, d), UpdatedAt |-> TimeAdd(now, d),
   Token |-> tokenString, ClientIP |-> clientIP, UserAgent |-> userAgent]
NewToken(now, d, tokenId, tokenString, clientIP, userAgent) ==
  [Id |-> tokenId, IsRevoked |-> FALSE, IssuedAt |-> now,
   ExpiresAt |-> TimeAdd(now, d), UpdatedAt |-> now,
   Token |-> tokenString, ClientIP |-> clientIP, UserAgent |-> userAgent]

(* --------------------------- the store -------------------------------- *)
\* the values CreateToken binds; the TEXT columns keep them as decimal text
Row(t) ==
  [id |-> t.Id, is_revoked |-> IF t.IsRevoked THEN 1 ELSE 0,
   issued_at |-> FormatInt(Unix(t.IssuedAt)),
   expires_at |-> FormatInt(Unix(t.ExpiresAt)),
   updated_at |-> FormatInt(Unix(t.UpdatedAt))]

\* INSERT INTO tokens: id is the PRIMARY KEY
InsertOrReplace(rows, row) ==
  [err |-> "none",
   rows |-> Append(SelectSeq(rows, LAMBDA x : x.id # row.id), row)]
InsertNoKey(rows, row) == [err |-> "none", rows |-> Append(rows, row)]
Insert(rows, row) ==
  IF \E i \in 1..Len(rows) : rows[i].id = row.id
  THEN [err |-> "constraint", rows |-> rows]
  ELSE [err |-> "none", rows |-> Append(rows, row)]

Perms(n) == {f \in [1..n -> 1..n] : \A i, j \in 1..n : f[i] = f[j] => i = j}
\* SELECT ... ORDER BY updated_at: every order of the rows the TEXT
\* comparison allows (rows with equal keys come in any order)
OrderByUpdatedAt(rows) ==
  {[i \in 1..Len(rows) |-> rows[f[i]]] : f \in
     {g \in Perms(Len(rows)) : \A i, j \in 1..Len(rows) :
        i < j => ~TextLess(rows[g[j]].updated_at, rows[g[i]].updated_at)}}

\* the row loop of ListTokens
ScanRowResign(row) ==
  LET i == ParseInt(row.issued_at)
      e == ParseInt(row.expires_at)
      u == ParseInt(row.updated_at)
  IN  [ok |-> i.ok /\ e.ok /\ u.ok,
       token |-> [ZeroToken EXCEPT !.Id = row.id, !.IsRevoked = (row.is_revoked # 0),
                                   !.IssuedAt = TimeUnix(i.val),
                                   !.ExpiresAt = TimeUnix(e.val),
                                   !.UpdatedAt = TimeUnix(u.val),
                                   !.Token = SignedString(row.id, i.val, e.val, i.val,
                                                          JWTSecret)]]
ScanRow(row) ==
  LET i == ParseInt(row.issued_at)
      e == ParseInt(row.expires_at)
      u == ParseInt(row.updated_at)
  IN  [ok |-> i.ok /\ e.ok /\ u.ok,
       token |-> [ZeroToken EXCEPT !.Id = row.id, !.IsRevoked = (row.is_revoked # 0),
                                   !.IssuedAt = TimeUnix(i.val),
                                   !.ExpiresAt = TimeUnix(e.val),
                                   !.UpdatedAt = TimeUnix(u.val)]]
\* the rows that scan, the others left out
Scanned(ordered) == SelectSeq(ordered, LAMBDA row : ScanRow(row).ok)
ListTokensSkip(ordered) ==
  [err |-> "none",
   tokens |-> [i \in 1..Len(Scanned(ordered)) |-> ScanRow(Scanned(ordered)[i]).token]]
ListTokens(ordered) ==
  IF \A i \in 1..Len(ordered) : ScanRow(ordered[i]).ok
  THEN [err |-> "none", tokens |-> [i \in 1..Len(ordered) |-> ScanRow(ordered[i]).token]]
  ELSE [err |-> "parse", tokens |-> <<>>]

\* The database file outlives the process and CREATE TABLE IF NOT EXISTS
\* keeps its table.  DateText is a timestamp as the schema of the earlier
\* version of the program wrote it (datetime('now'), here its date).
DateText == <<"2", "0", "2", "5", "-", "0", "1", "-", "0", "1">>
StoredRow(id, issued, expires, updated) ==
  [id |-> id, is_revoked |-> 0, issued_at |-> issued, expires_at |-> expires,
   updated_at |-> updated]
\* a row an earlier run of this version inserted
EarlierRow == StoredRow(1, FormatInt(1), FormatInt(1 + 24 * 3600), FormatInt(1))
\* rows with one timestamp in the earlier format
BadIssuedAt == StoredRow(2, DateText, FormatInt(1 + 24 * 3600), FormatInt(1))
BadExpiresAt == StoredRow(2, FormatInt(1), DateText, FormatInt(1))
BadUpdatedAt == StoredRow(2, FormatInt(1), FormatInt(1 + 24 * 3600), DateText)
\* what the table may hold when the process starts
StoreContents ==
  {<<>>, <<EarlierRow>>, <<BadIssuedAt>>, <<BadExpiresAt>>, <<BadUpdatedAt>>,
   <<EarlierRow, BadUpdatedAt>>, <<BadIssuedAt, EarlierRow>>}

(* ------------------------------ state --------------------------------- *)
VARIABLES
  req,      \* per connection: the request being served, the handler's position
  tokens,   \* the rows of table tokens, in insertion order
  conns,    \* the requests that hold a connection of the pool
  writer,   \* the request that holds SQLite's write lock, 0 when free
  clock,    \* the wall clock, in ticks
  nIssued,  \* issuances answered with success so far
  main,     \* the statement func main is at
  passed,   \* the startup steps of main that returned without error
  db,       \* the handle sql.Open returned: "none", "open" or "closed"
  listener  \* the listening socket of http.Server: "none", "up", "failed" or "closed"
vars == <<req, tokens, conns, writer, clock, nIssued, main, passed, db, listener>>
\* what the handlers leave alone
process == <<main, passed, db, listener>>

\* a connection with no request on it
Idle == [pc |-> "idle", method |-> "", path |-> "", remote |-> <<>>,
         expires |-> <<>>, t |-> ZeroToken, w |-> NoResponse, err |-> "none",
         dbCalls |-> 0, contended |-> FALSE, deadline |-> FALSE,
         panicked |-> FALSE, log |-> <<>>]

\* the steps of main before the server is started
StartupSteps == {"port", "NewSqliteDB", "TestConnection", "RunMigrations"}

Init ==
  /\ req = [r \in Req |-> Idle]
  /\ tokens = <<>>
  /\ conns = {}
  /\ writer = 0
  /\ clock = ClockStart
  /\ nIssued = 0
  /\ main = "Wait"
  /\ passed = StartupSteps
  /\ db = "open"
  /\ listener = "up"

\* the process runs; its goroutines end with it
Running == main \notin {"Exit0", "Exit1"}

\* connections are interchangeable: a new request takes the lowest idle one
Accepts(r) ==
  /\ Running
  /\ listener = "up"
  /\ req[r].pc = "idle"
  /\ \A q \in Req : q < r => req[q].pc # "idle"

NewRequest(method, path, remote) ==
  [Idle EXCEPT !.method = method, !.path = path, !.remote = remote]

\* the line logMiddleware prints once the client address is split
AccessLog(rq) ==
  LET a == SplitHostPort(rq.remote)
  IN  IF a.ok THEN <<[ip |-> a.host, method |-> rq.method, path |-> rq.path]>>
      ELSE <<>>

\* the handler returned: logMiddleware finishes and the response is complete
Served(rq, w) ==
  [rq EXCEPT !.pc = "done", !.w = LogMiddleware(w, rq.remote), !.log = AccessLog(rq)]

\* what the deferred function of panicMiddleware writes after recover()
RecoverSilently(w) == w
Recover(w) == HttpError(w, "Internal server error", StatusInternalServerError)
\* the handler panicked having written w: the panic unwinds through
\* logMiddleware, whose remaining statements do not run, and is recovered
Panicked(rq, w) ==
  [rq EXCEPT !.pc = "done", !.panicked = TRUE, !.w = Recover(w)]

(* ----------------------------- handlers ------------------------------- *)
\* what Tokens and SignUp answer when signing or a store call returned err:
\* err goes to the process's output and the client gets fixed words
ServerErrorLeaks(w, err) == HttpError(w, err, StatusInternalServerError)
ServerError(w, err) == HttpError(w, "Internal server error", StatusInternalServerError)

\* Server.Ping
Ping(r) ==
  /\ Accepts(r)
  /\ \E method \in Methods, path \in Paths, remote \in RemoteAddrs :
       /\ Route(path) = "Ping"
       /\ req' = [req EXCEPT ![r] =
            Served(NewRequest(method, path, remote),
                   Write(WriteHeader(NoResponse, StatusOK), Text("pong")))]
  /\ UNCHANGED <<tokens, conns, writer, clock, nIssued, process>>

\* no pattern of the mux matches: http.NotFound
NotFound(r) ==
  /\ Accepts(r)
  /\ \E method \in Methods, path \in Paths, remote \in RemoteAddrs :
       /\ Route(path) = "NotFound"
       /\ req' = [req EXCEPT ![r] =
            Served(NewRequest(method, path, remote),
                   HttpError(NoResponse, "404 page not found", StatusNotFound))]
  /\ UNCHANGED <<tokens, conns, writer, clock, nIssued, process>>

\* the method check of Server.Tokens
AnyMethod(method) == TRUE
TokensAllowed(method) == method = "GET"
\* Server.Tokens; ListTokens gets the request's own context, which carries
\* no deadline; a closed handle refuses the query; queryOk is whether
\* QueryContext and the row iteration succeed at the driver (I/O, cancelled
\* context)
Tokens(r) ==
  /\ Accepts(r)
  /\ \E method \in Methods, path \in Paths, remote \in RemoteAddrs :
       /\ Route(path) = "Tokens"
       /\ LET rq == NewRequest(method, path, remote) IN
          IF ~TokensAllowed(method)
          THEN req' = [req EXCEPT ![r] =
                 Served(rq, HttpError(NoResponse, "Method not allowed",
                                      StatusMethodNotAllowed))]
          ELSE IF db # "open"
          THEN req' = [req EXCEPT ![r] =
                 Served([rq EXCEPT !.dbCalls = 1, !.err = "closed"],
                        ServerError(NoResponse, "closed"))]
          ELSE /\ Cardinality(conns) < MaxOpenConns
               /\ \E queryOk \in BOOLEAN, ordered \in OrderByUpdatedAt(tokens) :
                    LET res == IF queryOk THEN ListTokens(ordered)
                               ELSE [err |-> "io", tokens |-> <<>>]
                        rq1 == [rq EXCEPT !.dbCalls = 1, !.err = res.err]
                    IN  req' = [req EXCEPT ![r] =
                          IF res.err # "none"
                          THEN Served(rq1, ServerError(NoResponse, res.err))
                          ELSE Served(rq1, Write(NoResponse,
                                 [kind |-> "list",
                                  list |-> [i \in 1..Len(res.tokens) |->
                                              TokenJSON(res.tokens[i])]]))]
  /\ UNCHANGED <<tokens, conns, writer, clock, nIssued, process>>

\* the method check of Server.SignUp
SignUpAllowed(method) == method = "POST"
\* whether SignUp refuses the expires_sec it parsed into d
NeverRefuse(d) == FALSE
RefuseExpires(d) == ~d.ok
\* Server.SignUp up to the call of CreateToken, which gets a context with a
\* deadline of 5 s; formOk and signOk are whether r.ParseForm and SignedString
\* succeed, uuidOk whether uuid.New gets its random bytes (it panics otherwise)
SignUp(r, env) ==
  /\ Accepts(r)
  /\ nIssued <= Cardinality(UUIDs)
  /\ \E method \in Methods, path \in Paths, remote \in RemoteAddrs :
       /\ Route(path) = "SignUp"
       /\ LET rq == NewRequest(method, path, remote) IN
          IF ~SignUpAllowed(method)
          THEN req' = [req EXCEPT ![r] =
                 Served(rq, HttpError(NoResponse, "Method not allowed",
                                      StatusMethodNotAllowed))]
          ELSE \E formOk \in BOOLEAN :
            IF ~formOk
            THEN req' = [req EXCEPT ![r] =
                   Served([rq EXCEPT !.err = "form"],
                          HttpError(NoResponse, "Failed to parse the form",
                                    StatusBadGateway))]
            ELSE \E expSecStr \in env.expires :
              LET d   == ExpDuration(expSecStr)
                  rq1 == [rq EXCEPT !.expires = expSecStr]
              IN
              IF RefuseExpires(d)
              THEN req' = [req EXCEPT ![r] =
                     Served([rq1 EXCEPT !.err = "expires"],
                            HttpError(NoResponse, "Invalid expires_sec parameter",
                                      StatusBadRequest))]
              ELSE \E uuidOk \in BOOLEAN :
                IF ~uuidOk
                THEN req' = [req EXCEPT ![r] = Panicked(rq1, NoResponse)]
                ELSE \E tokenId \in UUIDs, signOk \in BOOLEAN,
                      xff \in env.xffs, userAgent \in UserAgents :
                LET now == clock
                    expiresAt == TimeAdd(now, d.d)
                    tokenString == SignedString(tokenId, Unix(now), Unix(expiresAt),
                                                Unix(now), JWTSecret)
                    clientIP == IF xff = <<>> THEN remote ELSE xff
                IN
                IF ~signOk
                THEN req' = [req EXCEPT ![r] =
                       Served([rq1 EXCEPT !.err = "sign"],
                              ServerError(NoResponse, "sign"))]
                ELSE req' = [req EXCEPT ![r] =
                       [rq1 EXCEPT !.pc = "create", !.deadline = TRUE,
                                   !.t = NewToken(now, d.d, tokenId, tokenString,
                                                  clientIP, userAgent)]]
  /\ UNCHANGED <<tokens, conns, writer, clock, nIssued, process>>

\* the status SignUp answers with after CreateToken returned err
StatusAlwaysOK(err) == StatusOK
SignUpStatus(err) == IF err # "none" THEN StatusInternalServerError ELSE StatusOK

\* SignUp after CreateToken returned: the error answer, or the Token as JSON
SignUpAnswer(rq, err) ==
  IF SignUpStatus(err) # StatusOK
  THEN Served([rq EXCEPT !.err = err], ServerError(NoResponse, err))
  ELSE Served([rq EXCEPT !.err = err],
              Write(NoResponse, [kind |-> "token", token |-> TokenJSON(rq.t)]))

\* CreateToken, first half: a closed handle refuses the statement; otherwise
\* ExecContext waits for a connection of the pool
\* (connOk is whether it gets one before the 5 s context of SignUp expires or
\* the request is cancelled) and the INSERT asks for SQLite's write lock; a
\* lock held through another connection makes the statement fail with
\* SQLITE_BUSY
CreateTokenBegin(r) ==
  /\ Running
  /\ req[r].pc = "create"
  /\ LET rq == [req[r] EXCEPT !.dbCalls = 1,
                              !.contended = \E q \in Req \ {r} : req[q].pc = "create"]
     IN  IF db # "open"
         THEN /\ req' = [req EXCEPT ![r] = SignUpAnswer(rq, "closed")]
              /\ UNCHANGED <<conns, writer>>
         ELSE
         \E connOk \in BOOLEAN :
           IF ~connOk
           THEN /\ req' = [req EXCEPT ![r] = SignUpAnswer(rq, "io")]
                /\ UNCHANGED <<conns, writer>>
           ELSE /\ Cardinality(conns) < MaxOpenConns
                /\ IF writer = 0
                   THEN /\ req' = [req EXCEPT ![r] = [rq EXCEPT !.pc = "exec"]]
                        /\ conns' = conns \cup {r}
                        /\ writer' = r
                   ELSE /\ req' = [req EXCEPT ![r] = SignUpAnswer(rq, "busy")]
                        /\ UNCHANGED <<conns, writer>>
  /\ UNCHANGED <<tokens, clock, nIssued, process>>

\* CreateToken, second half: the INSERT runs and commits, the lock and the
\* connection are released, and SignUp answers; execOk is whether the
\* statement runs at all (I/O, an expired or cancelled context)
CreateTokenExec(r) ==
  /\ Running
  /\ req[r].pc = "exec"
  /\ \E execOk \in BOOLEAN :
       LET res == IF execOk THEN Insert(tokens, Row(req[r].t))
                  ELSE [err |-> "io", rows |-> tokens]
           ans == SignUpAnswer(req[r], res.err)
       IN  /\ tokens' = res.rows
           /\ req' = [req EXCEPT ![r] = ans]
           /\ nIssued' = IF ans.w.status = StatusOK THEN nIssued + 1 ELSE nIssued
  /\ conns' = conns \ {r}
  /\ writer' = 0
  /\ UNCHANGED <<clock, process>>

\* the response is on the wire; the connection serves its next request
Finish(r) ==
  /\ Running
  /\ req[r].pc = "done"
  /\ req' = [req EXCEPT ![r] = Idle]
  /\ UNCHANGED <<tokens, conns, writer, clock, nIssued, process>>

\* time passes
Tick ==
  /\ clock < ClockStart + MaxTicks
  /\ clock' = clock + 1
  /\ UNCHANGED <<req, tokens, conns, writer, nIssued, process>>

\* the server with connections R and clients env
Serve(R, env) ==
  \/ \E r \in R : Ping(r)
  \/ \E r \in R : NotFound(r)
  \/ \E r \in R : Tokens(r)
  \/ \E r \in R : SignUp(r, env)
  \/ \E r \in R : CreateTokenBegin(r)
  \/ \E r \in R : CreateTokenExec(r)
  \/ \E r \in R : Finish(r)
  \/ Tick

(* ------------------------------- main --------------------------------- *)
\* where main goes after a startup step: on, or os.Exit(1)
IgnoreFailure(ok, next) == next
AfterStep(ok, next) == IF ok THEN next ELSE "Exit1"

\* SERVER_PORT is left unset or passes strconv.Atoi (portOk), or main exits
ValidatePort ==
  /\ main = "port"
  /\ \E portOk \in BOOLEAN :
       /\ main' = AfterStep(portOk, "NewSqliteDB")
       /\ passed' = IF portOk THEN passed \cup {"port"} ELSE passed
  /\ UNCHANGED <<req, tokens, conns, writer, clock, nIssued, db, listener>>

\* the handle NewSqliteDB leaves behind: none when sql.Open failed, the open
\* one when the pragma ran, and a closed one when the pragma failed
HandleLeftOpen(openOk, pragmaOk) == IF openOk THEN "open" ELSE "none"
HandleAfterOpen(openOk, pragmaOk) ==
  IF ~openOk THEN "none" ELSE IF pragmaOk THEN "open" ELSE "closed"

\* NewSqliteDB: sql.Open returns a handle (openOk), the pragma runs on it
\* (pragmaOk) or the handle is closed again; the store object is returned
\* only when both succeed
NewSqliteDB ==
  /\ main = "NewSqliteDB"
  /\ \E openOk, pragmaOk \in BOOLEAN :
       /\ main' = AfterStep(openOk /\ pragmaOk, "TestConnection")
       /\ db' = HandleAfterOpen(openOk, pragmaOk)
       /\ passed' = IF openOk /\ pragmaOk THEN passed \cup {"NewSqliteDB"} ELSE passed
  /\ UNCHANGED <<req, tokens, conns, writer, clock, nIssued, listener>>

\* SqliteDB.TestConnection as main calls it
TestConnection ==
  /\ main = "TestConnection"
  /\ \E pingOk \in BOOLEAN :
       /\ main' = AfterStep(pingOk /\ db = "open", "RunMigrations")
       /\ passed' = IF pingOk /\ db = "open" THEN passed \cup {"TestConnection"}
                    ELSE passed
  /\ UNCHANGED <<req, tokens, conns, writer, clock, nIssued, db, listener>>

\* SqliteDB.RunMigrations as main calls it: CREATE TABLE IF NOT EXISTS
\* leaves the rows of an earlier run as they are
RunMigrations ==
  /\ main = "RunMigrations"
  /\ \E execOk \in BOOLEAN :
       /\ main' = AfterStep(execOk /\ db = "open", "ListenAndServe")
       /\ passed' = IF execOk /\ db = "open" THEN passed \cup {"RunMigrations"}
                    ELSE passed
  /\ UNCHANGED <<req, tokens, conns, writer, clock, nIssued, db, listener>>

\* the goroutine of s.ListenAndServe: a failure to listen is only printed,
\* and main waits for its signal either way
ListenAndServe ==
  /\ main = "ListenAndServe"
  /\ \E listenOk \in BOOLEAN : listener' = IF listenOk THEN "up" ELSE "failed"
  /\ main' = "Wait"
  /\ UNCHANGED <<req, tokens, conns, writer, clock, nIssued, passed, db>>

\* the signal arrives: main leaves <-ctx.Done() and calls database.Close(),
\* which lets a running statement finish and refuses every later one
Signal ==
  /\ main = "Wait"
  /\ db' = "closed"
  /\ main' = "Shutdown"
  /\ UNCHANGED <<req, tokens, conns, writer, clock, nIssued, passed, listener>>

\* s.Shutdown closes the listener and starts waiting for the connections
Shutdown ==
  /\ main = "Shutdown"
  /\ listener' = IF listener = "up" THEN "closed" ELSE listener
  /\ main' = "Draining"
  /\ UNCHANGED <<req, tokens, conns, writer, clock, nIssued, passed, db>>

\* s.Shutdown returns, every connection being idle or the 30 s of
\* shutdownCtx being over (timedOut), and main returns
Exit ==
  /\ main = "Draining"
  /\ \E timedOut \in BOOLEAN : timedOut \/ \A r \in Req : req[r].pc = "idle"
  /\ main' = "Exit0"
  /\ UNCHANGED <<req, tokens, conns, writer, clock, nIssued, passed, db, listener>>

\* concurrent connections
Next == Serve(Req, Basic)
Spec == Init /\ [][Next]_vars

\* one connection, every client
NextOne == Serve({1}, Full)
SpecOne == Init /\ [][NextOne]_vars

\* the server started on a database file with rows in it, one connection
InitStore ==
  /\ req = [r \in Req |-> Idle]
  /\ tokens \in StoreContents
  /\ conns = {}
  /\ writer = 0
  /\ clock = ClockStart
  /\ nIssued = 0
  /\ main = "Wait"
  /\ passed = StartupSteps
  /\ db = "open"
  /\ listener = "up"
NextStore == Serve({1}, Basic)
SpecStore == InitStore /\ [][NextStore]_vars

\* the process as started, before main ran
Boot ==
  /\ req = [r \in Req |-> Idle]
  /\ tokens = <<>>
  /\ conns = {}
  /\ writer = 0
  /\ clock = ClockStart
  /\ nIssued = 0
  /\ main = "port"
  /\ passed = {}
  /\ db = "none"
  /\ listener = "none"

\* the whole run of main, with one connection
NextMain ==
  \/ ValidatePort
  \/ NewSqliteDB
  \/ TestConnection
  \/ RunMigrations
  \/ ListenAndServe
  \/ Signal
  \/ Shutdown
  \/ Exit
  \/ Serve({1}, Basic)
SpecMain == Boot /\ [][NextMain]_vars

(* ====================== properties of the server ====================== *)
Done(r) == req[r].pc = "done"
\* the request was dispatched to SignUp and passed its method check
IsIssuance(rq) == Route(rq.path) = "SignUp" /\ rq.method = "POST"
\* the response carries a signed credential
HasCredential(w) ==
  \E i \in 1..Len(w.body) :
    /\ w.body[i].kind = "token"
    /\ "Token" \in DOMAIN w.body[i].token
    /\ w.body[i].token.Token # <<>>
Stored(t) == \E i \in 1..Len(tokens) : tokens[i] = Row(t)
HasId(rows, id) == \E i \in 1..Len(rows) : rows[i].id = id
UniqueIds(rows) == \A i, j \in 1..Len(rows) : rows[i].id = rows[j].id => i = j
\* CreateToken returned an error
InsertFailed(rq) == rq.err \in {"io", "constraint", "busy", "closed"}

\* C1: every returned token is persisted.  A response carries a signed
\* credential only with status 200 and only when CreateToken returned no
\* error and the token's row is in the table; when CreateToken returned an
\* error the response is a 500 without credential.
C1_ReturnedTokenIsPersisted ==
  \A r \in Req :
    /\ HasCredential(req[r].w) =>
         /\ req[r].w.status = StatusOK
         /\ req[r].err = "none"
         /\ Stored(req[r].t)
    /\ Done(r) /\ InsertFailed(req[r]) =>
         /\ req[r].w.status = StatusInternalServerError
         /\ ~HasCredential(req[r].w)
\* one issuance answered with its credential next to one whose insert failed
C1_Witness ==
  \E r, q \in Req :
    /\ Done(r) /\ HasCredential(req[r].w) /\ Stored(req[r].t)
    /\ Done(q) /\ req[q].err = "io" /\ req[q].w.status = StatusInternalServerError

\* C2: no two rows of the table share an id, and an INSERT whose id is
\* already in the table returns an error and leaves the table as it was.
C2_UniqueIds ==
  [][/\ UniqueIds(tokens')
     /\ \A r \in Req :
          (req[r].pc = "exec" /\ req'[r].pc = "done" /\ HasId(tokens, req[r].t.Id)) =>
            /\ req'[r].err # "none"
            /\ req'[r].w.status = StatusInternalServerError
            /\ tokens' = tokens]_vars
\* an INSERT of an id that is in the table was refused with the constraint error
C2_Witness ==
  \E r \in Req :
    /\ Done(r) /\ req[r].err = "constraint"
    /\ HasId(tokens, req[r].t.Id) /\ ~Stored(req[r].t)

IssuedAtOf(row) == ParseInt(row.issued_at).val
ExpiresAtOf(row) == ParseInt(row.expires_at).val
UpdatedAtOf(row) == ParseInt(row.updated_at).val
\* the text is an optionally signed run of decimal digits
IsIntegerText(s) ==
  LET body == IF s # <<>> /\ s[1] \in {"+", "-"} THEN Tail(s) ELSE s
  IN  body # <<>> /\ \A i \in 1..Len(body) : body[i] \in DigitSet
IsNegativeText(s) == IsIntegerText(s) /\ s[1] = "-" /\ DigitsValue(Tail(s)) > 0
\* the issuance was answered with success
Issued(r) == Done(r) /\ IsIssuance(req[r]) /\ req[r].w.status = StatusOK /\ req[r].err = "none"

\* C4: for every issuance whose expires_sec is a valid integer >= 0 the
\* stored row has issued_at < expires_at and expires_at - issued_at equal to
\* expires_sec, and equal to 86400 when expires_sec is left out.
C4_ValidityWindow ==
  \A r \in Req : Issued(r) =>
    LET row == Row(req[r].t)
        e   == req[r].expires
    IN  /\ (e # <<>> /\ ParseInt(e).ok /\ ParseInt(e).val >= 0) =>
             /\ IssuedAtOf(row) < ExpiresAtOf(row)
             /\ ExpiresAtOf(row) - IssuedAtOf(row) = ParseInt(e).val
        /\ e = <<>> => ExpiresAtOf(row) - IssuedAtOf(row) = 24 * 3600

\* the list a Tokens response carries
ListOf(w) == w.body[1].list
Listed(r) == Done(r) /\ Route(req[r].path) = "Tokens" /\ req[r].method = "GET"
             /\ req[r].err = "none"
\* C5: a list taken after exactly N successful issuances returns exactly N
\* records, one per stored id, ordered non-decreasingly by updated_at.
C5_ListCountAndOrder ==
  \A r \in Req : Listed(r) =>
    LET l == ListOf(req[r].w)
    IN  /\ Len(l) = nIssued
        /\ \A i \in 1..Len(tokens) : \E j \in 1..Len(l) : l[j].Id = tokens[i].id
        /\ \A i, j \in 1..Len(l) : i < j => l[i].UpdatedAt <= l[j].UpdatedAt

\* C6: an issuance whose expires_sec is a non-empty text that is not an
\* integer is answered 400 by the step that receives it, with no id
\* generated, nothing signed, no store call and the table unchanged.
C6_NonIntegerExpiresRefused ==
  [][\A r \in Req :
       (req'[r] # req[r] /\ req'[r].expires # <<>>
          /\ ~IsIntegerText(req'[r].expires)) =>
         /\ req[r].pc = "idle"
         /\ req'[r].pc = "done"
         /\ req'[r].w.status = StatusBadRequest
         /\ req'[r].t = ZeroToken
         /\ req'[r].dbCalls = 0
         /\ tokens' = tokens]_vars
\* expires_sec = abc was answered 400 while the table holds a row
C6_Witness ==
  \E r \in Req :
    /\ Done(r) /\ IsIssuance(req[r]) /\ req[r].expires = <<"a", "b", "c">>
    /\ req[r].w.status = StatusBadRequest
    /\ Len(tokens) > 0

\* C7: an issuance whose expires_sec is a negative integer is rejected with
\* a client error before any signing or persistence.
C7_NegativeExpiresRefused ==
  \A r \in Req :
    (req[r].pc # "idle" /\ IsIssuance(req[r]) /\ IsNegativeText(req[r].expires)) =>
      /\ Done(r)
      /\ req[r].w.status = StatusBadRequest
      /\ req[r].t = ZeroToken
      /\ req[r].dbCalls = 0

\* C8: every stored row has issued_at <= expires_at.
C8_IssuedBeforeExpires ==
  \A i \in 1..Len(tokens) : IssuedAtOf(tokens[i]) <= ExpiresAtOf(tokens[i])

\* C9: a POST to /tokens or /tokens/auth with a valid or absent expires_sec
\* is dispatched to issuance and answered 200 with the signed credential.
C9_PostTokensIssues ==
  \A r \in Req :
    (Done(r) /\ req[r].method = "POST" /\ req[r].path \in {"/tokens", "/tokens/auth"}) =>
      /\ req[r].w.status = StatusOK
      /\ HasCredential(req[r].w)

\* the handler the request reached refuses its method
WrongMethod(rq) ==
  \/ Route(rq.path) = "SignUp" /\ rq.method # "POST"
  \/ Route(rq.path) = "Tokens" /\ rq.method # "GET"
\* C10: the create handler acts only on POST and the list handler only on
\* GET.  A request with another method is answered 405 by the step that
\* receives it, makes no store call, and leaves the table, the pool and the
\* write lock as they were.
C10_MethodEnforcement ==
  [][\A r \in Req :
       (req'[r] # req[r] /\ req'[r].pc # "idle" /\ WrongMethod(req'[r])) =>
         /\ req[r].pc = "idle"
         /\ req'[r].pc = "done"
         /\ req'[r].w.status = StatusMethodNotAllowed
         /\ req'[r].dbCalls = 0
         /\ req'[r].t = ZeroToken
         /\ tokens' = tokens /\ conns' = conns /\ writer' = writer
         /\ nIssued' = nIssued]_vars
\* a POST to the list handler and a GET to the create handler were both
\* answered 405 while the table holds a row
C10_Witness ==
  /\ \E r \in Req : Done(r) /\ Route(req[r].path) = "Tokens" /\ req[r].method = "POST"
                    /\ req[r].w.status = StatusMethodNotAllowed
  /\ \E r \in Req : Done(r) /\ Route(req[r].path) = "SignUp" /\ req[r].method = "GET"
                    /\ req[r].w.status = StatusMethodNotAllowed
  /\ Len(tokens) > 0

\* the words every 500 of the server carries
Opaque == [status |-> StatusInternalServerError,
           body |-> <<Text("Internal server error")>>]

\* C11: a request during whose handling a fault was raised is answered by
\* the barrier with status 500 and the fixed words alone, holds neither a
\* connection of the pool nor the write lock, and leaves the process running
\* and listening, so that an idle connection accepts and serves the next
\* request.
C11_FaultIsolation ==
  \A r \in Req : req[r].panicked =>
    /\ Done(r)
    /\ req[r].w = Opaque
    /\ r \notin conns /\ writer # r
    /\ Running /\ listener = "up"
    /\ \A q \in Req : Accepts(q) => ENABLED Ping(q)
\* uuid.New panicked in an issuance while the other connection, idle, is
\* ready for the next request and the table holds a row
C11_Witness ==
  \E r, q \in Req :
    /\ Done(r) /\ req[r].panicked /\ IsIssuance(req[r])
    /\ Accepts(q)
    /\ Len(tokens) > 0

\* the client address of the request splits into host and port
AddressParses(rq) == SplitHostPort(rq.remote).ok

\* C12: every completed request whose client address parses, be it answered
\* with success, with a handled error or by the barrier after a fault, has
\* written exactly one access-log line, made of the client's host, the
\* method and the path.
C12_OneAccessLogLine ==
  \A r \in Req : (Done(r) /\ AddressParses(req[r])) =>
    req[r].log = <<[ip |-> SplitHostPort(req[r].remote).host,
                    method |-> req[r].method, path |-> req[r].path]>>

\* C13: a completed request whose client address does not parse was
\* answered with status 400 and wrote no access-log line.
C13_BadAddressIs400 ==
  \A r \in Req : (Done(r) /\ ~AddressParses(req[r])) =>
    /\ req[r].w.status = StatusBadRequest
    /\ req[r].log = <<>>

\* C14: a request goes from received to one terminal outcome: once complete
\* it carries one status and one body, nothing having been written after the
\* first response, and it made at most one store call.
C14_OneResponse ==
  \A r \in Req :
    /\ Done(r) => (req[r].w.status # 0 /\ Len(req[r].w.body) = 1)
    /\ ~Done(r) => req[r].w = NoResponse
    /\ req[r].dbCalls <= 1

\* main is past database.Close()
StoreClosedByMain == main \in {"Shutdown", "Draining", "Exit0"}

\* C15: on shutdown the store is closed only after the listener stopped
\* accepting and every request in flight finished, and no request makes a
\* store call on the closed store.
C15_ShutdownOrder ==
  /\ StoreClosedByMain => (listener # "up" /\ \A r \in Req : req[r].pc = "idle")
  /\ \A r \in Req : req[r].err # "closed"

\* C16: the listener is started, and a request is handled, only after the
\* port was validated, the store opened, the connection tested and the
\* migration run, in this order; when one of these steps fails main exits
\* with status 1, having started no listener and served no request.
C16_StartupOrder ==
  /\ (listener # "none" \/ \E r \in Req : req[r].pc # "idle") =>
       (passed = StartupSteps /\ db # "none")
  /\ "RunMigrations" \in passed => "TestConnection" \in passed
  /\ "TestConnection" \in passed => "NewSqliteDB" \in passed
  /\ "NewSqliteDB" \in passed => "port" \in passed
  /\ (passed # StartupSteps /\ main \notin StartupSteps) => main = "Exit1"
  /\ main = "Exit1" =>
       /\ passed # StartupSteps
       /\ listener = "none"
       /\ \A r \in Req : req[r] = Idle
       /\ tokens = <<>>
\* after the four steps the server answered a request
C16_Witness ==
  /\ passed = StartupSteps /\ listener = "up" /\ main = "Wait"
  /\ \E r \in Req : Done(r) /\ req[r].w.status = StatusOK

\* C17: every store call a request makes, the insert of an issuance and the
\* query of a list alike, runs under a context that carries a deadline, so
\* that a store that never answers cannot hold the request for ever.
C17_StoreCallsHaveDeadline ==
  [][\A r \in Req : req'[r].dbCalls > req[r].dbCalls => req'[r].deadline]_vars

\* one of the three timestamps of the row is not the text of an integer
Malformed(row) ==
  \/ ~IsIntegerText(row.issued_at)
  \/ ~IsIntegerText(row.expires_at)
  \/ ~IsIntegerText(row.updated_at)
\* the response carries a list
HasList(w) == \E i \in 1..Len(w.body) : w.body[i].kind = "list"
\* a GET of the list that reached the store
ListCall(r) == Done(r) /\ Route(req[r].path) = "Tokens" /\ req[r].method = "GET"
               /\ req[r].dbCalls = 1

\* C18: a list is all or nothing.  With a row in the table of which one
\* timestamp is malformed the whole read fails: the answer is a 500 that
\* carries no list.  A read that succeeds returns every row of the table,
\* none left out, and the read of an empty table returns the empty list
\* with status 200 unless the driver fails.
C18_ListAllOrNothing ==
  \A r \in Req : ListCall(r) =>
    /\ (\E i \in 1..Len(tokens) : Malformed(tokens[i])) => req[r].err # "none"
    /\ req[r].err # "none" =>
         (req[r].w.status = StatusInternalServerError /\ ~HasList(req[r].w))
    /\ req[r].err = "none" =>
         /\ req[r].w.status = StatusOK
         /\ Len(ListOf(req[r].w)) = Len(tokens)
         /\ \A i \in 1..Len(tokens) :
              \E j \in 1..Len(tokens) : ListOf(req[r].w)[j].Id = tokens[i].id
    /\ tokens = <<>> => req[r].err \in {"none", "io"}
\* the table holds a good row and a row with a malformed updated_at, and the
\* list was refused as a whole
C18_Witness ==
  \E r \in Req :
    /\ ListCall(r) /\ req[r].err = "parse"
    /\ \E i, j \in 1..Len(tokens) : Malformed(tokens[i]) /\ ~Malformed(tokens[j])

\* signing or a store call of the request returned an error
FailedInside(r) ==
  Done(r) /\ req[r].err \in {"sign", "io", "constraint", "busy", "closed", "parse"}

\* C19: a request that fails in signing or in a store call is answered 500
\* with the fixed words and no credential, and two such requests that differ
\* only in the error met inside receive the same response.
C19_OpaqueFailure ==
  /\ \A r \in Req : FailedInside(r) =>
       /\ req[r].w.status = StatusInternalServerError
       /\ req[r].w.body[1] = Text("Internal server error")
       /\ ~HasCredential(req[r].w) /\ ~HasList(req[r].w)
  /\ \A r, q \in Req :
       (FailedInside(r) /\ FailedInside(q) /\ req[r].remote = req[q].remote) =>
         req[r].w = req[q].w
\* a signing failure and a store failure, from the same address, answered
\* alike
C19_Witness ==
  \E r, q \in Req :
    /\ FailedInside(r) /\ req[r].err = "sign"
    /\ FailedInside(q) /\ req[q].err = "io" /\ req[q].dbCalls = 1
    /\ req[r].remote = req[q].remote
    /\ req[r].w = req[q].w

\* C20: the table only grows, and only by the insert of an issuance that is
\* answered 200: that step appends exactly the row of its token and every
\* other step (ping, list, a refused or failed issuance, a panic, the clock)
\* leaves the table as it was.
C20_AppendOnly ==
  [][\/ tokens' = tokens
     \/ \E r \in Req :
          /\ req[r].pc = "exec" /\ req'[r].pc = "done"
          /\ req'[r].err = "none" /\ req'[r].w.status = StatusOK
          /\ tokens' = Append(tokens, Row(req[r].t))
          /\ \A q \in Req \ {r} : req'[q] = req[q]]_vars
\* the table holds a row while a ping, a refused issuance or a failed
\* signing are complete
C20_Witness ==
  /\ Len(tokens) = 1
  /\ \E r \in Req : Done(r) /\ IsIssuance(req[r]) /\ req[r].err \in {"sign", "expires", "form"}
  /\ \E r \in Req : Done(r) /\ Route(req[r].path) \in {"Ping", "Tokens"}
                    /\ req[r].w.status = StatusOK

\* NewSqliteDB returned its store object to main
StoreReturned == "NewSqliteDB" \in passed

\* C21: opening the store leaks no handle.  A handle is open only when
\* NewSqliteDB returned its store object; when it returned an error, main
\* holds no store object and exits, and the handle, if sql.Open had returned
\* one, is closed.
C21_NoLeakedHandle ==
  /\ db = "open" => StoreReturned
  /\ (main \notin {"port", "NewSqliteDB"} /\ ~StoreReturned) =>
       (main = "Exit1" /\ db \in {"none", "closed"})
\* the pragma failed on the opened handle: the handle is closed and main exited
C21_Witness ==
  /\ main = "Exit1" /\ "port" \in passed /\ ~StoreReturned
  /\ db = "closed"

\* C22: every row the server wrote has is_revoked = 0 and an updated_at
\* equal to its issued_at, both in whole seconds: the insert of an issuance
\* is the only write, and no step changes a row afterwards.
C22_FreshRecords ==
  \A i \in 1..Len(tokens) :
    /\ tokens[i].is_revoked = 0
    /\ tokens[i].updated_at = tokens[i].issued_at
    /\ UpdatedAtOf(tokens[i]) = IssuedAtOf(tokens[i])
\* two issuances in different seconds are stored
C22_Witness ==
  /\ Len(tokens) = 2
  /\ tokens[1].issued_at # tokens[2].issued_at

\* the fields of a Token that only the issuance response carries
Audit == {"Token", "ClientIP", "UserAgent"}
Columns == {"id", "is_revoked", "issued_at", "expires_at", "updated_at"}

====
